---------------------------- MODULE Spec2Model ----------------------------
(***************************************************************************)
(* Model of the three PDF tools of the repository:                         *)
(*   - src/extract_outline_batch.py  (Outline Extraction Batch Tool)       *)
(*   - src/feature-extractor.py      (Merged-Block Feature Extractor)      *)
(*   - src/main.py                   (Per-Block Feature Extractor)         *)
(*                                                                         *)
(* Text is a sequence of one-character strings.  Lengths (coordinates,     *)
(* font sizes) are integers counting thousandths of a point, values        *)
(* rounded to 2 decimals count hundredths, values rounded to 4 decimals    *)
(* count ten-thousandths.                                                  *)
(***************************************************************************)
EXTENDS Integers, Sequences, FiniteSets, TLC

VARIABLES
    tool,                 \* which program / function runs
    pc,                   \* its position
    pdf,                  \* the file at the input path: unreadable, or its pages
    doc,                  \* the local `doc`: "none", "open" or "closed"
    raised,               \* the exception that left the function ("none" if none)
    result,               \* the value the function returned (None until then)
    log,                  \* the messages printed that tell the path taken
    blocks,               \* extract_pdf_structure: blocks
    font_sizes,           \* extract_pdf_structure: font_sizes
    title,                \* extract_pdf_structure: title (None until set)
    outline,              \* extract_pdf_structure / adjust_hierarchy: outline
    orig_outline,         \* adjust_hierarchy: the argument as it was passed
    node_idx,             \* adjust_hierarchy: position of the for loop
    last_level,           \* adjust_hierarchy: last_level
    all_blocks_raw_data,  \* extract_and_process_pdf: all_blocks_raw_data
    all_blocks_data,      \* process_pdf: all_blocks_data
    csvfile,              \* the CSV output file: NoFile or the rows written
    entries,              \* process_pdfs: the entries of input_dir
    pdf_files,            \* process_pdfs: pdf_files
    file_idx,             \* process_pdfs: position of the for loop
    out_files,            \* process_pdfs: names of the files in output_dir
    write_log             \* process_pdfs: stems written, in order

commonVars   == <<tool, pc, pdf, doc, raised, result, log>>
outlineVars  == <<blocks, font_sizes, title, outline>>
adjustVars   == <<orig_outline, node_idx, last_level>>
featureVars  == <<all_blocks_raw_data, all_blocks_data, csvfile>>
batchVars    == <<entries, pdf_files, file_idx, out_files, write_log>>
vars == <<commonVars, outlineVars, adjustVars, featureVars, batchVars>>

(***************************************************************************)
(* Bounds of the model.                                                    *)
(***************************************************************************)
MaxNodes  == 4     \* nodes of an outline handed to adjust_hierarchy
MaxLevel  == 4     \* one-digit levels H1..H<MaxLevel> among the inputs
MaxPages  == 2     \* pages of a document
MaxBlocks == 2     \* raw blocks of a document, over all its pages
MaxEntries == 3    \* entries of the input directory

(***************************************************************************)
(* Generic helpers.                                                        *)
(***************************************************************************)
Min(S) == CHOOSE x \in S : \A y \in S : x <= y
Max(S) == CHOOSE x \in S : \A y \in S : x >= y
Abs(x) == IF x < 0 THEN -x ELSE x

RECURSIVE SumSeq(_)
SumSeq(s) == IF s = <<>> THEN 0 ELSE Head(s) + SumSeq(Tail(s))

RECURSIVE Flatten(_)
Flatten(ss) == IF ss = <<>> THEN <<>> ELSE Head(ss) \o Flatten(Tail(ss))


(***************************************************************************)
(* Python str: character classes, strip(), split().                        *)
(***************************************************************************)
Whitespace == {" ", "\t", "\n"}
UpperChars == {"A", "B", "C", "I", "N", "O", "R", "T"}
LowerChars == {"a", "b", "c", "d", "e", "f", "g", "h", "i", "j", "k", "l",
               "n", "o", "p", "r", "s", "t", "x"}
DigitChars == {"0", "1", "2", "3", "4", "5", "6", "7", "8", "9"}
Terminal   == {".", "?", "!"}

IsSpace(c) == c \in Whitespace
IsUpper(c) == c \in UpperChars
IsAlpha(c) == c \in UpperChars \cup LowerChars
IsDigit(c) == c \in DigitChars
IsAlnum(c) == IsAlpha(c) \/ IsDigit(c)

\* str.strip(): without leading and trailing whitespace
Strip(s) ==
    LET keep == { i \in 1..Len(s) : ~IsSpace(s[i]) }
    IN  IF keep = {} THEN <<>> ELSE SubSeq(s, Min(keep), Max(keep))

\* str.split(): the maximal runs of non-whitespace characters
RECURSIVE Split(_)
Split(s) ==
    LET t == Strip(s)
        sp == { i \in 1..Len(t) : IsSpace(t[i]) }
        k == IF sp = {} THEN Len(t) + 1 ELSE Min(sp)
    IN  IF t = <<>> THEN <<>>
        ELSE <<SubSeq(t, 1, k - 1)>> \o Split(SubSeq(t, k, Len(t)))

AlnumCount(s) == Cardinality({ i \in 1..Len(s) : IsAlnum(s[i]) })

\* str.isupper(): some cased character, and no lower-case one
StrIsUpper(s) ==
    /\ \E i \in 1..Len(s) : IsUpper(s[i])
    /\ \A i \in 1..Len(s) : s[i] \notin LowerChars

(***************************************************************************)
(* Python round(): to the nearest, ties to the even neighbour.             *)
(***************************************************************************)
\* n / d (d > 0) rounded to an integer
RoundDiv(n, d) ==
    LET q == n \div d
        r == n % d
    IN  IF 2 * r < d THEN q
        ELSE IF 2 * r > d THEN q + 1
        ELSE IF q % 2 = 0 THEN q ELSE q + 1
\* round(x, 2) of a length in thousandths: hundredths
Round2(m) == RoundDiv(m, 10)
\* round(x) of a length in thousandths: units
Round0(m) == RoundDiv(m, 1000)
\* round(x, 4) of the fraction <<num, den>>: ten-thousandths
\* (the quotient is taken two decimals at a time to stay within 32 bits)
Round4(frac) ==
    LET q  == frac[1] \div frac[2]
        r1 == 100 * (frac[1] % frac[2])
        q1 == r1 \div frac[2]
        r2 == 100 * (r1 % frac[2])
    IN  10000 * q + 100 * q1 + RoundDiv(r2, frac[2])

BoolInt(b) == IF b THEN 1 ELSE 0
HasFlag(flags, bit) == (flags \div bit) % 2 = 1

(***************************************************************************)
(* Python int() of one decimal digit and the decimal text of a number.     *)
(***************************************************************************)
DigitOf == [c \in DigitChars |->
              CASE c = "0" -> 0 [] c = "1" -> 1 [] c = "2" -> 2 [] c = "3" -> 3
                [] c = "4" -> 4 [] c = "5" -> 5 [] c = "6" -> 6 [] c = "7" -> 7
                [] c = "8" -> 8 [] c = "9" -> 9]
CharOf(d) == CHOOSE c \in DigitChars : DigitOf[c] = d

RECURSIVE Decimal(_)
Decimal(n) == IF n < 10 THEN <<CharOf(n)>>
              ELSE Decimal(n \div 10) \o <<CharOf(n % 10)>>

\* f"H{new}"
LevelLabel(n) == <<"H">> \o Decimal(n)

\* int(node.get('level', 'H1')[1]): the character after the "H", alone
ParseLevel(level) == DigitOf[level[2]]

(***************************************************************************)
(* adjust_hierarchy (extract_outline_batch.py).                            *)
(***************************************************************************)
\* (the promotion to last + 2)
AdjustLevelPlusTwo(orig, last) ==
    IF last = 0 /\ orig > 1 THEN 1
    ELSE IF orig > last + 2 THEN last + 2
    ELSE orig

\* the if / elif / else of the loop body: the level assigned to a node
AdjustLevel(orig, last) ==
    IF last = 0 /\ orig > 1 THEN 1
    ELSE IF orig > last + 1 THEN last + 1
    ELSE orig

\* the body of the loop for one node: node['level'] = f"H{new}"
AdjustNode(node, last) ==
    [node EXCEPT !.level = LevelLabel(AdjustLevel(ParseLevel(node.level), last))]

\* the whole function, as extract_pdf_structure calls it
RECURSIVE AdjustFrom(_, _)
AdjustFrom(nodes, last) ==
    IF nodes = <<>> THEN <<>>
    ELSE LET n == AdjustNode(Head(nodes), last)
         IN  <<n>> \o AdjustFrom(Tail(nodes), ParseLevel(n.level))
AdjustHierarchy(nodes) == AdjustFrom(nodes, 0)

(***************************************************************************)
(* Idle values of the variables a specification does not use.              *)
(***************************************************************************)
\* Python None / a value: the empty sequence / the sequence of the value
None == <<>>
Some(x) == <<x>>
\* the file at the input path
\*   Unreadable: fitz.open raises;  Damaged(d): it opens, and the engine
\*   raises when the text of its first page is asked for;  Readable(d): fine
Unreadable == [readable |-> FALSE, damaged |-> FALSE, pages |-> <<>>]
Damaged(d) == [readable |-> TRUE, damaged |-> TRUE, pages |-> d]
Readable(d) == [readable |-> TRUE, damaged |-> FALSE, pages |-> d]
\* the CSV file at the output path
NoFile == [exists |-> FALSE, header |-> <<>>, rows |-> <<>>]
File(header, rows) == [exists |-> TRUE, header |-> header, rows |-> rows]

IdleCommon  == /\ pdf = Unreadable /\ doc = "none" /\ raised = "none"
               /\ result = None /\ log = <<>>
IdleOutline == /\ blocks = <<>> /\ font_sizes = <<>> /\ title = None
IdleAdjust  == /\ orig_outline = <<>> /\ node_idx = 0 /\ last_level = 0
IdleFeature == /\ all_blocks_raw_data = <<>> /\ all_blocks_data = <<>>
               /\ csvfile = NoFile
IdleBatch   == /\ entries = {} /\ pdf_files = <<>> /\ file_idx = 0
               /\ out_files = {} /\ write_log = <<>>

(***************************************************************************)
(* SpecAdjust: adjust_hierarchy on any outline whose levels are "H<n>".    *)
(***************************************************************************)
\* the levels of the inputs: H1..H<MaxLevel>, and two levels of two digits
LevelInputs == (1..MaxLevel) \cup {10, 23}
NodeText(i) == <<"S">> \o Decimal(i)

InitAdjust ==
    /\ tool = "adjust_hierarchy"
    /\ pc = "loop"
    /\ \E n \in 0..MaxNodes : \E lv \in [1..n -> LevelInputs] :
         \E first_page \in 0..1 :
           outline = [i \in 1..n |->
                        [level |-> LevelLabel(lv[i]), text |-> NodeText(i),
                         page |-> first_page + (i - 1) \div 2]]
    /\ orig_outline = outline
    /\ node_idx = 1
    /\ last_level = 0
    /\ IdleCommon /\ blocks = <<>> /\ font_sizes = <<>> /\ title = None
    /\ IdleFeature /\ IdleBatch

\* one iteration of `for node in outline`
AdjustStep ==
    /\ tool = "adjust_hierarchy" /\ pc = "loop"
    /\ node_idx <= Len(outline)
    /\ LET n == AdjustNode(outline[node_idx], last_level)
       IN  /\ outline' = [outline EXCEPT ![node_idx] = n]
           /\ last_level' = ParseLevel(n.level)
    /\ node_idx' = node_idx + 1
    /\ UNCHANGED <<commonVars, blocks, font_sizes, title, orig_outline,
                   featureVars, batchVars>>

\* `return outline`
AdjustReturn ==
    /\ tool = "adjust_hierarchy" /\ pc = "loop"
    /\ node_idx > Len(outline)
    /\ pc' = "returned"
    /\ result' = Some(outline)
    /\ UNCHANGED <<tool, pdf, doc, raised, log, outlineVars, adjustVars,
                   featureVars, batchVars>>

NextAdjust == AdjustStep \/ AdjustReturn
SpecAdjust == InitAdjust /\ [][NextAdjust]_vars

(***************************************************************************)
(* Documents as the parsing engine hands them over:                        *)
(*   document = sequence of pages (page_num counts from 0)                 *)
(*   page     = [width, height, blocks, drawings]                          *)
(*   block    = [type, bbox, lines]      bbox = <<x0, y0, x1, y1>>         *)
(*   line     = [bbox, spans]                                              *)
(*   span     = [text, font, size, flags, color]                           *)
(***************************************************************************)
Span(text, font, size, flags, color) ==
    [text |-> text, font |-> font, size |-> size, flags |-> flags,
     color |-> color]
Line(bbox, spans) == [bbox |-> bbox, spans |-> spans]
TextBlock(bbox, lines) == [type |-> 0, bbox |-> bbox, lines |-> lines]
ImageBlock(bbox) == [type |-> 1, bbox |-> bbox, lines |-> <<>>]

PageWidth  == 600000
PageHeight == 800000
Page(bs, ds) == [width |-> PageWidth, height |-> PageHeight, blocks |-> bs,
                 drawings |-> ds]

\* the document whose pages hold the blocks bs, sizes[p] of them on page p
DocOf(bs, sizes) ==
    [p \in 1..Len(sizes) |->
       Page(SubSeq(bs, SumSeq(SubSeq(sizes, 1, p - 1)) + 1,
                   SumSeq(SubSeq(sizes, 1, p))), <<>>)]
\* the drawings ds put on the first page of a document
WithDrawings(d, ds) ==
    IF d = <<>> THEN d
    ELSE <<[d[1] EXCEPT !.drawings = ds]>> \o SubSeq(d, 2, Len(d))
\* a file that opens and whose first page the engine cannot read
DamagedFile == Damaged(<<Page(<<>>, <<>>)>>)
\* pdf is a file at an input path: an unreadable one, a damaged one, or a
\* document of at most MaxPages pages and MaxBlocks blocks of B, with one of
\* the drawing lists of D on its first page
InputFile(B, D) ==
    \/ pdf = Unreadable
    \/ pdf = DamagedFile
    \/ \E k \in 0..MaxBlocks, n \in 0..MaxPages :
         \E bs \in [1..k -> B], sizes \in [1..n -> 0..k], ds \in D :
            /\ SumSeq(sizes) = k
            /\ pdf = Readable(WithDrawings(DocOf(bs, sizes), ds))

\* the spans of a block, line after line
SpansOf(blk) == Flatten([i \in 1..Len(blk.lines) |-> blk.lines[i].spans])

(***************************************************************************)
(* Texts of the input documents.                                           *)
(***************************************************************************)
T_Empty == <<>>
T_Space == <<" ">>
T_Title == <<"A", " ", "B", " ", "C", " ", "d", " ", "e">>
T_Intro == <<"i", "n", "t", "r", "o", ".">>
T_Body1 == <<" ", "A", "b", " ", "c", " ", "d", " ", "e", " ", "f">>
T_Body2 == <<"g", " ", "h", " ", "i", " ", "j", " ", "k", " ", "l", ".">>
T_Short == <<"a", "-", "-", "b">>
T_Part  == <<"p", "a", "r", "t", " ", "o", "n", "e", ".">>
T_Note  == <<"s", "e", "e", " ", "n", " ", "o", " ", "t", " ", "e">>

(***************************************************************************)
(* Outline tool: extract_pdf_structure (extract_outline_batch.py).         *)
(***************************************************************************)
\* re.search(r"Bold", font_name, re.IGNORECASE), on the fonts of the inputs
BoldFonts   == {"Helvetica-Bold", "Arial-BOLDMT"}
\* re.search(r"Italic|Oblique", font_name, re.IGNORECASE)
ItalicFonts == {"Times-Italic", "Courier-Oblique"}

\* the spans the inner loop does not skip: text non-empty after strip()
TextSpans(blk) == SelectSeq(SpansOf(blk), LAMBDA sp : Strip(sp.text) # <<>>)

\* block_text += text + " " over those spans
RECURSIVE JoinStripped(_)
JoinStripped(spans) ==
    IF spans = <<>> THEN <<>>
    ELSE Strip(Head(spans).text) \o <<" ">> \o JoinStripped(Tail(spans))

CountSpans(spans, Fonts) ==
    Cardinality({ i \in 1..Len(spans) : spans[i].font \in Fonts })

\* the records blocks.append(...) adds for one raw block: none or one
OutlineBlock(page_num, blk) ==
    LET spans == TextSpans(blk)
        block_text == JoinStripped(spans)
        total_spans == Len(spans)
        sizes == { spans[i].size : i \in 1..Len(spans) }
    IN  IF blk.type # 0 THEN <<>>
        ELSE IF Strip(block_text) = <<>> THEN <<>>
        ELSE << [page |-> page_num,
                 text |-> Strip(block_text),
                 font_size |-> Max(sizes \cup {0}),
                 bold_ratio |-> <<CountSpans(spans, BoldFonts), total_spans>>,
                 italic_ratio |-> <<CountSpans(spans, ItalicFonts), total_spans>>] >>

\* the first loop: blocks
CollectBlocks(d) ==
    Flatten([p \in 1..Len(d) |->
        Flatten([b \in 1..Len(d[p].blocks) |->
            OutlineBlock(p - 1, d[p].blocks[b])])])

\* the first loop: font_sizes
CollectSizes(d) ==
    Flatten([p \in 1..Len(d) |->
        Flatten([b \in 1..Len(d[p].blocks) |->
            IF d[p].blocks[b].type # 0 THEN <<>>
            ELSE LET spans == TextSpans(d[p].blocks[b])
                 IN  [i \in 1..Len(spans) |-> spans[i].size]])])

\* avg_font and heading_thresh = avg_font + 1.5 as fractions <<num, den>>
AvgFont(sizes) == IF sizes = <<>> THEN <<0, 1>>
                  ELSE <<SumSeq(sizes), Len(sizes)>>
HeadingThresh(sizes) ==
    LET avg == AvgFont(sizes) IN <<avg[1] + 1500 * avg[2], avg[2]>>

\* ratio > 0.5
MoreThanHalf(ratio) == 2 * ratio[1] > ratio[2]

\* is_heading_nlp(text)
IsHeadingNlp(text) ==
    LET txt == Strip(text)
        words == Split(txt)
        cap == Cardinality({ i \in 1..Len(words) : IsUpper(words[i][1]) })
    IN  IF txt = <<>> \/ txt[Len(txt)] \in Terminal THEN FALSE
        ELSE IF Len(words) > 10 THEN FALSE
        ELSE IF AlnumCount(txt) < 3 THEN FALSE
        ELSE 2 * cap >= Len(words)

\* is_big = size >= heading_thresh
IsBig(size, sizes) ==
    LET th == HeadingThresh(sizes) IN size * th[2] >= th[1]
\* size >= heading_thresh * 1.2
IsVeryBig(size, sizes) ==
    LET th == HeadingThresh(sizes) IN 10 * size * th[2] >= 12 * th[1]

\* the test of line 105 without its page condition
TitleTestAnyPage(b, t) ==
    /\ t = None
    /\ Len(Split(b.text)) > 4
    /\ b.text[Len(b.text)] \notin Terminal
\* the test of line 105
TitleTest(b, t) ==
    /\ b.page = 0
    /\ t = None
    /\ Len(Split(b.text)) > 4
    /\ b.text[Len(b.text)] \notin Terminal

\* the test of line 111
FilteredOut(txt) == AlnumCount(txt) < 3 \/ Len(txt) < 4

\* the test of line 119 without its word limit
HeadingTestNoCount(b, sizes) ==
    \/ IsBig(b.font_size, sizes)
    \/ MoreThanHalf(b.bold_ratio)
    \/ MoreThanHalf(b.italic_ratio)
    \/ IsHeadingNlp(b.text)
\* the test of line 119
HeadingTest(b, sizes) ==
    /\ \/ IsBig(b.font_size, sizes)
       \/ MoreThanHalf(b.bold_ratio)
       \/ MoreThanHalf(b.italic_ratio)
       \/ IsHeadingNlp(b.text)
    /\ Len(Split(b.text)) <= 10

\* line 120
ProvisionalLevel(b, sizes) ==
    IF (IsBig(b.font_size, sizes) /\ IsVeryBig(b.font_size, sizes))
       \/ MoreThanHalf(b.bold_ratio)
    THEN LevelLabel(1) ELSE LevelLabel(2)

\* the second loop, from block i on, with the title and the outline so far
RECURSIVE DetectFrom(_, _, _, _, _)
DetectFrom(bs, i, t, out, sizes) ==
    IF i > Len(bs) THEN [title |-> t, outline |-> out]
    ELSE LET b == bs[i] IN
         IF TitleTest(b, t) THEN DetectFrom(bs, i + 1, Some(b.text), out, sizes)
         ELSE IF FilteredOut(b.text) THEN DetectFrom(bs, i + 1, t, out, sizes)
         ELSE IF HeadingTest(b, sizes)
              THEN DetectFrom(bs, i + 1, t,
                       Append(out, [level |-> ProvisionalLevel(b, sizes),
                                    text |-> b.text, page |-> b.page]),
                       sizes)
              ELSE DetectFrom(bs, i + 1, t, out, sizes)

(***************************************************************************)
(* Input documents of the Outline tool.                                    *)
(***************************************************************************)
Box == <<72000, 100000, 300000, 112000>>
OSpan(text, font, size) == Span(text, font, size, 0, Some(0))

O_Image == ImageBlock(Box)
O_Blank == TextBlock(Box, <<Line(Box, <<OSpan(T_Space, "Helvetica", 10000),
                                        OSpan(T_Empty, "Helvetica", 10000)>>)>>)
O_Title == TextBlock(Box, <<Line(Box, <<OSpan(T_Title, "Helvetica", 10000)>>)>>)
O_Bold  == TextBlock(Box, <<Line(Box, <<OSpan(T_Intro, "Helvetica-Bold", 10000)>>)>>)
O_Body  == TextBlock(Box, <<Line(Box, <<OSpan(T_Body1, "Times-Italic", 10000)>>),
                           Line(Box, <<OSpan(T_Body2, "Times-Italic", 10000)>>)>>)
O_Short == TextBlock(Box, <<Line(Box, <<OSpan(T_Short, "Arial-BOLDMT", 10000)>>)>>)
O_Part  == TextBlock(Box, <<Line(Box, <<OSpan(T_Part, "Helvetica", 16000)>>)>>)
O_Note  == TextBlock(Box, <<Line(Box, <<OSpan(T_Note, "Courier-Oblique", 10000),
                                        OSpan(T_Space, "Helvetica", 30000)>>)>>)
OutlineBlocks == {O_Image, O_Blank, O_Title, O_Bold, O_Body, O_Short, O_Part,
                  O_Note}

(***************************************************************************)
(* extract_pdf_structure, step by step.                                    *)
(***************************************************************************)
\* extract_pdf_structure runs on its own, or called by process_pdfs
IsOutline == tool \in {"extract_pdf_structure", "process_pdfs"}

InitOutline ==
    /\ tool = "extract_pdf_structure"
    /\ pc = "open"
    /\ InputFile(OutlineBlocks, {<<>>})
    /\ doc = "none" /\ raised = "none" /\ result = None /\ log = <<>>
    /\ IdleOutline /\ outline = <<>>
    /\ IdleAdjust /\ IdleFeature /\ IdleBatch

\* doc = fitz.open(pdf_path): a failure to open leaves the function
OutlineOpen ==
    /\ IsOutline /\ pc = "open"
    /\ IF ~pdf.readable
       THEN /\ raised' = "open failure" /\ pc' = "raised" /\ doc' = doc
       ELSE /\ doc' = "open" /\ pc' = "collect" /\ raised' = raised
    /\ UNCHANGED <<tool, pdf, result, log, outlineVars, adjustVars,
                   featureVars, batchVars>>

\* the first loop over pages, blocks, lines and spans; an error of the
\* engine leaves the function
OutlineCollect ==
    /\ IsOutline /\ pc = "collect"
    /\ IF pdf.damaged
       THEN /\ raised' = "engine failure" /\ pc' = "raised"
            /\ UNCHANGED <<blocks, font_sizes>>
       ELSE /\ blocks' = CollectBlocks(pdf.pages)
            /\ font_sizes' = CollectSizes(pdf.pages)
            /\ pc' = "detect" /\ raised' = raised
    /\ UNCHANGED <<tool, pdf, doc, result, log, title, outline, adjustVars,
                   featureVars, batchVars>>

\* the second loop: title detection, filter, heading detection
OutlineDetect ==
    /\ IsOutline /\ pc = "detect"
    /\ LET r == DetectFrom(blocks, 1, None, <<>>, font_sizes)
       IN  /\ title' = r.title
           /\ outline' = r.outline
    /\ pc' = "adjust"
    /\ UNCHANGED <<tool, pdf, doc, raised, result, log, blocks, font_sizes,
                   adjustVars, featureVars, batchVars>>

\* outline = adjust_hierarchy(outline)
OutlineAdjust ==
    /\ IsOutline /\ pc = "adjust"
    /\ outline' = AdjustHierarchy(outline)
    /\ pc' = "return"
    /\ UNCHANGED <<tool, pdf, doc, raised, result, log, blocks, font_sizes,
                   title, adjustVars, featureVars, batchVars>>

\* return {"title": title or "", "outline": outline}
OutlineReturn ==
    /\ IsOutline /\ pc = "return"
    /\ result' = Some([title |-> IF title = None THEN <<>> ELSE title[1],
                       outline |-> outline])
    /\ pc' = "returned"
    /\ UNCHANGED <<tool, pdf, doc, raised, log, outlineVars, adjustVars,
                   featureVars, batchVars>>

NextOutline ==
    OutlineOpen \/ OutlineCollect \/ OutlineDetect \/ OutlineAdjust
        \/ OutlineReturn


(***************************************************************************)
(* Claims about adjust_hierarchy, under SpecAdjust.                        *)
(***************************************************************************)
\* the positive integer n a level label "H<n>" denotes
RECURSIVE DecimalValue(_)
DecimalValue(ds) == IF ds = <<>> THEN 0
                    ELSE 10 * DecimalValue(SubSeq(ds, 1, Len(ds) - 1))
                         + DigitOf[ds[Len(ds)]]
LevelNumber(label) == DecimalValue(SubSeq(label, 2, Len(label)))

AdjustReturned == tool = "adjust_hierarchy" /\ pc = "returned"

\* C1: after adjust_hierarchy, for any input whose levels are "H<n>" with n
\* a positive integer, the first node has level H1 and the level of every
\* later node is at most the assigned level of the node before it plus 1.
C1_NoDeepeningByMoreThanOne ==
    AdjustReturned =>
        /\ Len(outline) > 0 => outline[1].level = <<"H", "1">>
        /\ \A i \in 2..Len(outline) :
             LevelNumber(outline[i].level)
                 <= LevelNumber(outline[i - 1].level) + 1

\* C1 witness: a returned outline whose first node came in deeper than H1
\* and in which a later node came in more than one step deeper than the
\* level assigned to the node before it.
C1_Witness ==
    /\ AdjustReturned
    /\ Len(outline) >= 3
    /\ LevelNumber(orig_outline[1].level) > 1
    /\ \E i \in 2..Len(outline) :
         LevelNumber(orig_outline[i].level)
             > LevelNumber(outline[i - 1].level) + 1

\* the rule of the claim, on the integer a level label denotes
RuleLevel(L, last) ==
    IF last = 0 /\ L > 1 THEN 1
    ELSE IF L > last + 1 THEN last + 1
    ELSE L
RECURSIVE RuleLevels(_, _)
RuleLevels(labels, last) ==
    IF labels = <<>> THEN <<>>
    ELSE LET new == RuleLevel(LevelNumber(Head(labels)), last)
         IN  <<new>> \o RuleLevels(Tail(labels), new)

\* C6: adjust_hierarchy assigns each node of parsed level L the level 1 if
\* last_level = 0 and L > 1, else last_level + 1 if L > last_level + 1, else
\* L, with last_level starting at 0 and updated to the assigned level; the
\* number, order, text and page of the nodes are kept; [H3, H1, H4, H2]
\* yields [H1, H1, H2, H2].
C6_AssignsByRule ==
    AdjustReturned =>
        /\ Len(outline) = Len(orig_outline)
        /\ \A i \in 1..Len(outline) :
             /\ outline[i].text = orig_outline[i].text
             /\ outline[i].page = orig_outline[i].page
             /\ DOMAIN outline[i] = DOMAIN orig_outline[i]
        /\ [i \in 1..Len(outline) |-> LevelNumber(outline[i].level)]
             = RuleLevels([i \in 1..Len(outline) |-> orig_outline[i].level], 0)
        /\ [i \in 1..Len(orig_outline) |-> orig_outline[i].level]
             = <<LevelLabel(3), LevelLabel(1), LevelLabel(4), LevelLabel(2)>>
           => [i \in 1..Len(outline) |-> outline[i].level]
                = <<LevelLabel(1), LevelLabel(1), LevelLabel(2), LevelLabel(2)>>

(***************************************************************************)
(* Claims about extract_pdf_structure, under Spec.                         *)
(***************************************************************************)
Last(s) == s[Len(s)]
SeqCount(s, Test(_)) == Cardinality({ i \in 1..Len(s) : Test(s[i]) })

\* the blocks the claim lets become the title
TitleCandidates ==
    { i \in 1..Len(blocks) :
        /\ blocks[i].page = 0
        /\ Len(Split(blocks[i].text)) > 4
        /\ Last(blocks[i].text) \notin {".", "?", "!"} }
TitleIdx == IF TitleCandidates = {} THEN 0 ELSE Min(TitleCandidates)

\* C4: the title is the text of the first block on page 0 with more than 4
\* words and a last character outside ".?!", whatever qualifying blocks
\* follow it; that block is not emitted as an outline node; with no such
\* block the title is the empty string.
C4_TitleIsFirstQualifyingBlock ==
    (IsOutline /\ pc = "returned") =>
        LET r == result[1] IN
        /\ TitleIdx = 0 => r.title = <<>>
        /\ TitleIdx # 0 =>
             LET tb == blocks[TitleIdx]
                 Same(x) == x.text = tb.text /\ x.page = tb.page
             IN  /\ r.title = tb.text
                 /\ SeqCount(r.outline, Same) <= SeqCount(blocks, Same) - 1

\* C4 witness: a returned result whose title block passes the heading tests
\* and is followed on page 0 by a qualifying block of another text, which
\* is in the outline.
C4_Witness ==
    /\ IsOutline /\ pc = "returned"
    /\ TitleIdx # 0
    /\ IsHeadingNlp(blocks[TitleIdx].text)
    /\ \E j \in TitleCandidates :
         /\ blocks[j].text # blocks[TitleIdx].text
         /\ \E k \in 1..Len(outline) : outline[k].text = blocks[j].text

\* the tests of the claim, on the collected blocks and font sizes
ClaimAboveAvg(size, factor10) ==
    LET n == Len(font_sizes)
    IN  IF n = 0 THEN 10 * size >= factor10 * 1500
        ELSE 10 * size * n >= factor10 * (SumSeq(font_sizes) + 1500 * n)
ClaimIsBig(b)    == ClaimAboveAvg(b.font_size, 10)
ClaimIsBold(b)   == 2 * b.bold_ratio[1] > b.bold_ratio[2]
ClaimIsItalic(b) == 2 * b.italic_ratio[1] > b.italic_ratio[2]
ClaimPassesFilter(b) == AlnumCount(b.text) >= 3 /\ Len(b.text) >= 4
ClaimIsHeading(b) ==
    /\ ClaimIsBig(b) \/ ClaimIsBold(b) \/ ClaimIsItalic(b)
           \/ IsHeadingNlp(b.text)
    /\ Len(Split(b.text)) <= 10
ClaimLevel(b) ==
    IF (ClaimIsBig(b) /\ ClaimAboveAvg(b.font_size, 12)) \/ ClaimIsBold(b)
    THEN <<"H", "1">> ELSE <<"H", "2">>
ClaimEmitted ==
    { i \in 1..Len(blocks) :
        i # TitleIdx /\ ClaimPassesFilter(blocks[i]) /\ ClaimIsHeading(blocks[i]) }
\* the k-th smallest element of a set of numbers
RECURSIVE Kth(_, _)
Kth(S, k) == IF k = 1 THEN Min(S) ELSE Kth(S \ {Min(S)}, k - 1)

\* C5: a block that is not the title and passes the alphanumeric / length
\* filter is emitted as a heading iff (is_big or is_bold or is_italic or
\* is_nlp) and it has at most 10 words, with provisional level H1 exactly
\* when (is_big and font_size >= heading_thresh * 1.2) or is_bold, else H2;
\* a block failing the filter is never emitted.
C5_HeadingIffTests ==
    (IsOutline /\ pc = "adjust") =>
        outline = [k \in 1..Cardinality(ClaimEmitted) |->
                     LET b == blocks[Kth(ClaimEmitted, k)]
                     IN  [level |-> ClaimLevel(b), text |-> b.text,
                          page |-> b.page]]

\* C5 witness: a heading was emitted, a block that passes the filter and is
\* italic was not (more than 10 words).
C5_Witness ==
    /\ IsOutline /\ pc = "adjust"
    /\ Len(outline) = 1
    /\ \E i \in 1..Len(blocks) :
         /\ ClaimPassesFilter(blocks[i]) /\ ClaimIsItalic(blocks[i])
         /\ i \notin ClaimEmitted /\ i # TitleIdx


(***************************************************************************)
(* Merged-Block extractor (feature-extractor.py).                          *)
(***************************************************************************)
\* convert_color_int_to_rgb
ConvertColorIntToRgb(color_int) ==
    IF color_int = None THEN None
    ELSE LET c == color_int[1]
         IN  Some(<<(c \div 65536) % 256, (c \div 256) % 256, c % 256>>)

\* get_style_signature
GetStyleSignature(span) ==
    LET text == Strip(span.text)
        is_all_caps == StrIsUpper(text)
                         /\ \E i \in 1..Len(text) : IsAlpha(text[i])
    IN  << span.font, Round2(span.size), span.color, HasFlag(span.flags, 16),
           HasFlag(span.flags, 2), HasFlag(span.flags, 1), is_all_caps >>

\* the quotient without the subtraction of the minimum
NormalizeValueFromZero(value, min_val, max_val) ==
    IF max_val = min_val THEN <<0, 1>>
    ELSE <<value, max_val - min_val>>
\* normalize_value: the fraction <<numerator, denominator>>
NormalizeValue(value, min_val, max_val) ==
    IF max_val = min_val THEN <<0, 1>>
    ELSE <<value - min_val, max_val - min_val>>

\* max(spans, key=lambda s: len(s.get("text", "").strip()))
LongestSpan(spans) ==
    LET len(i) == Len(Strip(spans[i].text))
        longest == Max({ len(i) : i \in 1..Len(spans) })
    IN  spans[Min({ i \in 1..Len(spans) : len(i) = longest })]

\* a line the merge loop does not skip
LineQualifies(line) ==
    /\ line.spans # <<>>
    /\ Strip(LongestSpan(line.spans).text) # <<>>

\* "".join(span.get("text", "") for span in spans).strip()
LineText(line) ==
    Strip(Flatten([i \in 1..Len(line.spans) |-> line.spans[i].text]))

\* (the running box left as it is)
KeepRect(a, b) == a
\* Rect.include_rect, of two rectangles that have an area
IncludeRect(a, b) ==
    << Min({a[1], b[1]}), Min({a[2], b[2]}), Max({a[3], b[3]}),
       Max({a[4], b[4]}) >>

\* the lines of the text blocks of a page, block after block
PageLines(page) ==
    Flatten([b \in 1..Len(page.blocks) |->
               IF page.blocks[b].type = 0 THEN page.blocks[b].lines ELSE <<>>])

MergedOf(cur) == [text |-> cur.text, style |-> cur.style[1], bbox |-> cur.bbox]

\* the merge loop of a page, from line i on; cur is the running block
RECURSIVE MergeFrom(_, _, _, _)
MergeFrom(lines, i, merged, cur) ==
    IF i > Len(lines)
    THEN IF cur.text # <<>> THEN Append(merged, MergedOf(cur)) ELSE merged
    ELSE IF ~LineQualifies(lines[i]) THEN MergeFrom(lines, i + 1, merged, cur)
    ELSE LET line_style_sig == GetStyleSignature(LongestSpan(lines[i].spans))
             line_text == LineText(lines[i])
             line_bbox == lines[i].bbox
         IN  IF Some(line_style_sig) = cur.style
             THEN MergeFrom(lines, i + 1, merged,
                      [text |-> cur.text \o <<" ">> \o line_text,
                       style |-> cur.style,
                       bbox |-> IncludeRect(cur.bbox, line_bbox)])
             ELSE MergeFrom(lines, i + 1,
                      IF cur.text # <<>> THEN Append(merged, MergedOf(cur))
                      ELSE merged,
                      [text |-> line_text, style |-> Some(line_style_sig),
                       bbox |-> line_bbox])

MergedBlocksOnPage(page) ==
    MergeFrom(PageLines(page), 1, <<>>,
              [text |-> <<>>, style |-> None, bbox |-> <<>>])

\* the raw spacing loop of a page
PageRawData(page, page_num) ==
    LET m == MergedBlocksOnPage(page)
    IN  [i \in 1..Len(m) |->
           [text |-> m[i].text, style |-> m[i].style, bbox |-> m[i].bbox,
            page_num |-> page_num,
            page_width |-> page.width, page_height |-> page.height,
            space_left |-> m[i].bbox[1],
            space_right |-> page.width - m[i].bbox[3],
            space_above |-> IF i = 1 THEN m[i].bbox[2]
                            ELSE m[i].bbox[2] - m[i - 1].bbox[4],
            space_below |-> IF i = Len(m) THEN page.height - m[i].bbox[4]
                            ELSE m[i + 1].bbox[2] - m[i].bbox[4]]]

\* (the pages counted from 0)
MergedPass1FromZero(d) ==
    Flatten([p \in 1..Len(d) |-> PageRawData(d[p], p - 1)])
\* pass 1: for page_num, page in enumerate(doc, 1)
MergedPass1(d) == Flatten([p \in 1..Len(d) |-> PageRawData(d[p], p)])

MergedHeader ==
    << "page_number", "is_bold", "is_italic", "is_underline", "is_all_caps",
       "is_centered", "contains_number", "contains_fullstop", "word_count",
       "norm_font_size", "norm_space_above", "norm_space_below",
       "norm_space_left", "norm_space_right", "norm_r", "norm_g", "norm_b",
       "norm_x0", "norm_y0", "norm_x1", "norm_y1",
       "font", "font_size", "color_rgb", "x0", "y0", "x1", "y1",
       "space_above", "space_below", "space_left", "space_right", "text" >>

\* min(...) and max(...) of the list of a column's values
ColumnMin(values) == Min({ values[i] : i \in 1..Len(values) })
ColumnMax(values) == Max({ values[i] : i \in 1..Len(values) })

\* x / dim if dim else 0, rounded to 4 decimals
RatioOrZero(x, dim) == IF dim # 0 THEN Round4(<<x, dim>>) ELSE 0

\* pass 2: the row written for one block (color_rgb as the triple it prints)
MergedRow(b, raw) ==
    LET Size(x)  == x.style[2]
        Above(x) == x.space_above
        Below(x) == x.space_below
        Left(x)  == x.space_left
        Right(x) == x.space_right
        Norm(Get(_)) ==
            LET column == [i \in 1..Len(raw) |-> Get(raw[i])]
            IN  Round4(NormalizeValue(Get(b), ColumnMin(column),
                                      ColumnMax(column)))
        color_rgb == ConvertColorIntToRgb(b.style[3])
        rgb == IF color_rgb # None THEN color_rgb[1] ELSE <<0, 0, 0>>
    IN  [page_number |-> b.page_num,
         is_bold |-> BoolInt(b.style[4]),
         is_italic |-> BoolInt(b.style[5]),
         is_underline |-> BoolInt(b.style[6]),
         is_all_caps |-> BoolInt(b.style[7]),
         is_centered |-> BoolInt(Abs(b.space_left - b.space_right) < 5000),
         contains_number |-> BoolInt(\E i \in 1..Len(b.text) : IsDigit(b.text[i])),
         contains_fullstop |-> BoolInt(\E i \in 1..Len(b.text) : b.text[i] = "."),
         word_count |-> Len(Split(b.text)),
         norm_font_size |-> Norm(Size),
         norm_space_above |-> Norm(Above),
         norm_space_below |-> Norm(Below),
         norm_space_left |-> Norm(Left),
         norm_space_right |-> Norm(Right),
         norm_r |-> Round4(<<rgb[1], 255>>),
         norm_g |-> Round4(<<rgb[2], 255>>),
         norm_b |-> Round4(<<rgb[3], 255>>),
         norm_x0 |-> RatioOrZero(b.bbox[1], b.page_width),
         norm_y0 |-> RatioOrZero(b.bbox[2], b.page_height),
         norm_x1 |-> RatioOrZero(b.bbox[3], b.page_width),
         norm_y1 |-> RatioOrZero(b.bbox[4], b.page_height),
         font |-> b.style[1],
         font_size |-> b.style[2],
         color_rgb |-> rgb,
         x0 |-> Round2(b.bbox[1]), y0 |-> Round2(b.bbox[2]),
         x1 |-> Round2(b.bbox[3]), y1 |-> Round2(b.bbox[4]),
         space_above |-> Round2(b.space_above),
         space_below |-> Round2(b.space_below),
         space_left |-> Round2(b.space_left),
         space_right |-> Round2(b.space_right),
         text |-> b.text]

MergedRows(raw) == [i \in 1..Len(raw) |-> MergedRow(raw[i], raw)]

\* (the check that never returns early)
NoRawDataNever(raw) == FALSE
\* if not all_blocks_raw_data: print(...); return
NoRawData(raw) == raw = <<>>

\* `if doc:` -- a Document has __len__ (main.py takes len(doc)) and so is
\* true exactly when it has pages
DocTruthy(handle, file) == handle # "none" /\ Len(file.pages) > 0


(***************************************************************************)
(* Merged-Block extractor: input documents.                                *)
(***************************************************************************)
T_Head == <<"I", "N", "T", "R", "O">>
T_Num  == <<"1", ".">>

M_Image == ImageBlock(<<72000, 200000, 300000, 280000>>)
\* a line without spans and a line of white space
M_Blank == TextBlock(<<72000, 600000, 300000, 624000>>,
             << Line(<<72000, 600000, 300000, 612000>>, <<>>),
                Line(<<72000, 612000, 300000, 624000>>,
                     <<Span(T_Space, "Times", 10000, 0, Some(0))>>) >>)
\* two lines whose sizes round to the same 2 decimals
M_Para == TextBlock(<<72000, 100000, 500000, 126000>>,
             << Line(<<72000, 100000, 500000, 112000>>,
                     <<Span(T_Body1, "Times", 10004, 0, Some(255))>>),
                Line(<<72000, 114000, 480000, 126000>>,
                     <<Span(T_Body2, "Times", 9996, 0, Some(255))>>) >>)
\* a centred bold line in capitals, without a colour
M_Head == TextBlock(<<200000, 50000, 400000, 70000>>,
             << Line(<<200000, 50000, 400000, 70000>>,
                     <<Span(T_Head, "Helvetica-Bold", 14000, 16, None)>>) >>)
\* a line of a short italic span and a longer regular one, and a line of
\* another size
M_Mixed == TextBlock(<<72000, 300000, 350000, 330000>>,
             << Line(<<72000, 300000, 300000, 312000>>,
                     << Span(T_Num, "Times-Italic", 10000, 2, Some(0)),
                        Span(T_Part, "Times", 10000, 0, Some(16711680)) >>),
                Line(<<72000, 316000, 350000, 330000>>,
                     <<Span(T_Title, "Times", 12000, 0, Some(16711680))>>) >>)

MergedBlocks == {M_Image, M_Blank, M_Para, M_Head, M_Mixed}

(***************************************************************************)
(* Merged-Block extractor: extract_and_process_pdf, step by step.          *)
(***************************************************************************)
IsMerged == tool = "extract_and_process_pdf"

InitMerged ==
    /\ tool = "extract_and_process_pdf" /\ pc = "open"
    /\ InputFile(MergedBlocks, {<<>>})
    /\ doc = "none" /\ raised = "none" /\ result = None /\ log = <<>>
    /\ IdleOutline /\ outline = <<>> /\ IdleAdjust /\ IdleFeature /\ IdleBatch

\* doc = fitz.open(pdf_path); a failure is caught by the except clauses
MergedOpen ==
    /\ IsMerged /\ pc = "open"
    /\ IF pdf.readable
       THEN doc' = "open" /\ pc' = "pass1" /\ log' = Append(log, "opened")
       ELSE doc' = doc /\ pc' = "finally" /\ log' = Append(log, "error")
    /\ UNCHANGED <<tool, pdf, raised, result, outlineVars, adjustVars,
                   featureVars, batchVars>>

\* pass 1 and the check that follows it; an error of the engine is caught
MergedFirstPass ==
    /\ IsMerged /\ pc = "pass1"
    /\ IF pdf.damaged
       THEN /\ pc' = "finally" /\ log' = Append(log, "error")
            /\ UNCHANGED all_blocks_raw_data
       ELSE /\ all_blocks_raw_data' = MergedPass1(pdf.pages)
            /\ IF NoRawData(all_blocks_raw_data')
               THEN pc' = "finally" /\ log' = Append(log, "no text")
               ELSE pc' = "pass2" /\ log' = log
    /\ UNCHANGED <<tool, pdf, doc, raised, result, outlineVars, adjustVars,
                   all_blocks_data, csvfile, batchVars>>

\* pass 2: the CSV file is opened and written; an error of the file system
\* is caught and leaves no file or the rows written so far
MergedSecondPass ==
    /\ IsMerged /\ pc = "pass2"
    /\ LET rows == MergedRows(all_blocks_raw_data)
       IN  \/ /\ csvfile' = File(MergedHeader, rows)
              /\ log' = log
           \/ /\ csvfile' = NoFile
              /\ log' = Append(log, "error")
           \/ /\ \E k \in 0..(Len(rows) - 1) :
                    csvfile' = File(MergedHeader, SubSeq(rows, 1, k))
              /\ log' = Append(log, "error")
    /\ pc' = "finally"
    /\ UNCHANGED <<tool, pdf, doc, raised, result, outlineVars, adjustVars,
                   all_blocks_raw_data, all_blocks_data, batchVars>>

\* finally: if doc: doc.close()
MergedFinally ==
    /\ IsMerged /\ pc = "finally"
    /\ IF DocTruthy(doc, pdf)
       THEN doc' = "closed" /\ log' = Append(log, "closed")
       ELSE doc' = doc /\ log' = log
    /\ pc' = "returned"
    /\ UNCHANGED <<tool, pdf, raised, result, outlineVars, adjustVars,
                   featureVars, batchVars>>

NextMerged ==
    MergedOpen \/ MergedFirstPass \/ MergedSecondPass \/ MergedFinally


(***************************************************************************)
(* Per-Block extractor (main.py).                                          *)
(***************************************************************************)
\* Counter(values).most_common(1)[0][0]: the first of the most frequent
MostCommon(values) ==
    LET count(i) == Cardinality({ j \in 1..Len(values) : values[j] = values[i] })
        most == Max({ count(i) : i \in 1..Len(values) })
    IN  values[Min({ i \in 1..Len(values) : count(i) = most })]

\* full_text: every span's text followed by a space, then strip()
FullText(block) ==
    LET spans == SpansOf(block)
    IN  Strip(Flatten([i \in 1..Len(spans) |-> spans[i].text \o <<" ">>]))

\* analyze_block_text_features; the size in whole points
AnalyzeBlockTextFeatures(block) ==
    LET spans == SpansOf(block)
    IN  IF spans = <<>>
        THEN [font |-> "N/A", size |-> 0, is_bold |-> FALSE,
              is_italic |-> FALSE, text |-> FullText(block)]
        ELSE [font |-> MostCommon([i \in 1..Len(spans) |-> spans[i].font]),
              size |-> MostCommon([i \in 1..Len(spans) |-> Round0(spans[i].size)]),
              is_bold |-> \E i \in 1..Len(spans) : HasFlag(spans[i].flags, 16),
              is_italic |-> \E i \in 1..Len(spans) : HasFlag(spans[i].flags, 2),
              text |-> FullText(block)]

\* (the blocks in the order of the page)
Unsorted(bs) == bs
\* sorted(blocks, key=lambda b: b['bbox'][1]): stable
RECURSIVE SortedByY0(_)
SortedByY0(bs) ==
    IF bs = <<>> THEN <<>>
    ELSE LET head == SortedByY0(SubSeq(bs, 1, Len(bs) - 1))
             b == bs[Len(bs)]
             k == Cardinality({ i \in 1..Len(head) : head[i].bbox[2] <= b.bbox[2] })
         IN  SubSeq(head, 1, k) \o <<b>> \o SubSeq(head, k + 1, Len(head))

\* (the skip without the test on the text)
PerBlockKeepsAnyText(block) == block.type = 0 /\ block.lines # <<>>
\* the blocks the loop does not skip
PerBlockKeeps(block) ==
    /\ block.type = 0 /\ block.lines # <<>>
    /\ Strip(AnalyzeBlockTextFeatures(block).text) # <<>>

\* (the test without the horizontal overlap)
UnderlinedByNoOverlap(rect, bbox, font_size) ==
    /\ rect[4] - rect[2] < 1000 /\ rect[3] - rect[1] > 0
    /\ rect[2] > bbox[4] - font_size * 200
    /\ rect[2] < bbox[4] + font_size * 200
\* the underline test of one drawing path, rect = <<x0, y0, x1, y1>>
UnderlinedBy(rect, bbox, font_size) ==
    /\ rect[4] - rect[2] < 1000 /\ rect[3] - rect[1] > 0
    /\ rect[2] > bbox[4] - font_size * 200
    /\ rect[2] < bbox[4] + font_size * 200
    /\ Max({bbox[1], rect[1]}) < Min({bbox[3], rect[3]})

\* the feature dictionary of the i-th block of the sorted list
BlockData(page, page_num, sorted, i) ==
    LET block == sorted[i]
        f == AnalyzeBlockTextFeatures(block)
        text == f.text
        x0 == block.bbox[1]
        y0 == block.bbox[2]
        x1 == block.bbox[3]
        y1 == block.bbox[4]
        prev_block_y1 == IF i > 1 THEN sorted[i - 1].bbox[4] ELSE 0
        next_block_y0 == IF i < Len(sorted) THEN sorted[i + 1].bbox[2]
                         ELSE page.height
    IN  [text |-> text,
         font |-> f.font,
         font_size |-> f.size,
         is_bold |-> f.is_bold,
         is_italic |-> f.is_italic,
         is_underline |-> \E d \in 1..Len(page.drawings) :
                             UnderlinedBy(page.drawings[d], block.bbox, f.size),
         is_all_caps |-> /\ \E c \in 1..Len(text) : IsAlpha(text[c])
                         /\ StrIsUpper(SelectSeq(text, IsAlpha)),
         is_centered |-> Abs((x0 + x1) - page.width) < 10000,
         contains_number |-> \E c \in 1..Len(text) : IsDigit(text[c]),
         contains_fullstop |-> \E c \in 1..Len(text) : text[c] = ".",
         word_count |-> Len(Split(text)),
         x0 |-> Round2(x0), y0 |-> Round2(y0),
         x1 |-> Round2(x1), y1 |-> Round2(y1),
         space_above |-> Round2(y0 - prev_block_y1),
         space_below |-> Round2(next_block_y0 - y1),
         space_left |-> Round2(x0),
         space_right |-> Round2(page.width - x1),
         page_number |-> page_num + 1]

\* the rows of one page; page_num counts from 0
PageBlockData(page, page_num) ==
    LET sorted == SortedByY0(page.blocks)
    IN  Flatten([i \in 1..Len(sorted) |->
                   IF PerBlockKeeps(sorted[i])
                   THEN <<BlockData(page, page_num, sorted, i)>> ELSE <<>>])

\* for page_num in range(len(doc))
CollectBlockData(d) ==
    Flatten([p \in 1..Len(d) |-> PageBlockData(d[p], p - 1)])

\* norm_val, rounded to 4 decimals
NormVal(value, min_val, max_val) ==
    LET range_val == max_val - min_val
    IN  IF range_val = 0 THEN 0 ELSE Round4(<<value - min_val, range_val>>)

\* section 6: the normalised columns are added to every row
NormalizeRows(rows) ==
    LET FontSize(x) == x.font_size
        Above(x) == x.space_above
        Below(x) == x.space_below
        Left(x)  == x.space_left
        Right(x) == x.space_right
        Norm(b, Get(_)) ==
            LET column == [i \in 1..Len(rows) |-> Get(rows[i])]
            IN  NormVal(Get(b), ColumnMin(column), ColumnMax(column))
    IN  [i \in 1..Len(rows) |->
           [ k \in DOMAIN rows[i] \cup { "norm_font_size", "norm_space_above",
                 "norm_space_below", "norm_space_left", "norm_space_right" } |->
               CASE k = "norm_font_size"   -> Norm(rows[i], FontSize)
                 [] k = "norm_space_above" -> Norm(rows[i], Above)
                 [] k = "norm_space_below" -> Norm(rows[i], Below)
                 [] k = "norm_space_left"  -> Norm(rows[i], Left)
                 [] k = "norm_space_right" -> Norm(rows[i], Right)
                 [] OTHER -> rows[i][k] ]]

\* fieldnames = all_blocks_data[0].keys(): the keys in insertion order
PerBlockHeader ==
    << "text", "font", "font_size", "is_bold", "is_italic", "is_underline",
       "is_all_caps", "is_centered", "contains_number", "contains_fullstop",
       "word_count", "x0", "y0", "x1", "y1", "space_above", "space_below",
       "space_left", "space_right", "page_number", "norm_font_size",
       "norm_space_above", "norm_space_below", "norm_space_left",
       "norm_space_right" >>


(***************************************************************************)
(* Per-Block extractor: input documents.  The drawings of a document are   *)
(* those of its first page.                                                *)
(***************************************************************************)
P_Image == ImageBlock(<<72000, 200000, 300000, 280000>>)
P_NoLines == TextBlock(<<72000, 500000, 300000, 512000>>, <<>>)
\* a line without spans and a line of white space
P_Blank == TextBlock(<<72000, 600000, 300000, 624000>>,
             << Line(<<72000, 600000, 300000, 612000>>, <<>>),
                Line(<<72000, 612000, 300000, 624000>>,
                     <<Span(T_Space, "Times", 10000, 0, Some(0))>>) >>)
\* a centred bold heading in capitals
P_Head == TextBlock(<<200000, 50000, 400000, 70000>>,
             << Line(<<200000, 50000, 400000, 70000>>,
                     <<Span(T_Head, "Helvetica-Bold", 17600, 16, Some(0))>>) >>)
\* two lines; a blank span between spans of two fonts and sizes; corners
\* off the hundredths of a point
P_Para == TextBlock(<<72004, 100006, 499996, 126004>>,
             << Line(<<72000, 100000, 500000, 112000>>,
                     << Span(T_Body1, "Times", 11500, 0, Some(0)),
                        Span(T_Space, "Courier", 10400, 0, Some(0)) >>),
                Line(<<72000, 114000, 480000, 126000>>,
                     <<Span(T_Num, "Courier", 9600, 2, Some(0))>>) >>)

PerBlockBlocks == {P_Image, P_NoLines, P_Blank, P_Head, P_Para}

\* no drawing; a rule elsewhere, a frame around the page and a rule under
\* P_Head; paths that miss P_Head (beside it, 0.2 * 18 below and above its
\* bottom edge, without width, 1.0 high) and a stroke under the right end
\* of P_Para
DrawingLists ==
    { <<>>,
      << <<72000, 400000, 300000, 400500>>, <<0, 0, 600000, 800000>>,
         <<200000, 71000, 400000, 71500>> >>,
      << <<410000, 71000, 500000, 71500>>, <<200000, 73600, 400000, 74000>>,
         <<200000, 66400, 400000, 66900>>, <<300000, 70000, 300000, 70500>>,
         <<200000, 69000, 400000, 70000>>,
         <<450000, 127000, 560000, 127000>> >> }

(***************************************************************************)
(* Per-Block extractor: process_pdf, step by step.                         *)
(***************************************************************************)
IsPerBlock == tool = "process_pdf"

InitPerBlock ==
    /\ tool = "process_pdf" /\ pc = "open"
    /\ InputFile(PerBlockBlocks, DrawingLists)
    /\ doc = "none" /\ raised = "none" /\ result = None /\ log = <<>>
    /\ IdleOutline /\ outline = <<>> /\ IdleAdjust /\ IdleFeature /\ IdleBatch

\* try: doc = fitz.open(...) except Exception: print and return
PerBlockOpen ==
    /\ IsPerBlock /\ pc = "open"
    /\ IF pdf.readable
       THEN doc' = "open" /\ pc' = "collect" /\ log' = log
       ELSE doc' = doc /\ pc' = "returned" /\ log' = Append(log, "error")
    /\ UNCHANGED <<tool, pdf, raised, result, outlineVars, adjustVars,
                   featureVars, batchVars>>

\* the loop over the pages; an error of the engine leaves the function
PerBlockCollect ==
    /\ IsPerBlock /\ pc = "collect"
    /\ IF pdf.damaged
       THEN /\ raised' = "engine failure" /\ pc' = "raised"
            /\ UNCHANGED all_blocks_data
       ELSE /\ all_blocks_data' = CollectBlockData(pdf.pages)
            /\ pc' = "close" /\ raised' = raised
    /\ UNCHANGED <<tool, pdf, doc, result, log, outlineVars, adjustVars,
                   all_blocks_raw_data, csvfile, batchVars>>

\* doc.close() and the check that follows it
PerBlockClose ==
    /\ IsPerBlock /\ pc = "close"
    /\ doc' = "closed"
    /\ IF all_blocks_data = <<>>
       THEN pc' = "returned" /\ log' = Append(log, "no text")
       ELSE pc' = "normalize" /\ log' = log
    /\ UNCHANGED <<tool, pdf, raised, result, outlineVars, adjustVars,
                   featureVars, batchVars>>

\* section 6
PerBlockNormalize ==
    /\ IsPerBlock /\ pc = "normalize"
    /\ all_blocks_data' = NormalizeRows(all_blocks_data)
    /\ pc' = "write"
    /\ UNCHANGED <<tool, pdf, doc, raised, result, log, outlineVars,
                   adjustVars, all_blocks_raw_data, csvfile, batchVars>>

\* section 7; an IOError is caught and leaves no file or the rows written
\* so far
PerBlockWrite ==
    /\ IsPerBlock /\ pc = "write"
    /\ \/ /\ csvfile' = File(PerBlockHeader, all_blocks_data)
          /\ log' = Append(log, "written")
       \/ /\ csvfile' = NoFile
          /\ log' = Append(log, "error")
       \/ /\ \E k \in 0..(Len(all_blocks_data) - 1) :
                csvfile' = File(PerBlockHeader, SubSeq(all_blocks_data, 1, k))
          /\ log' = Append(log, "error")
    /\ pc' = "returned"
    /\ UNCHANGED <<tool, pdf, doc, raised, result, outlineVars, adjustVars,
                   all_blocks_raw_data, all_blocks_data, batchVars>>

NextPerBlock ==
    \/ PerBlockOpen \/ PerBlockCollect \/ PerBlockClose
    \/ PerBlockNormalize \/ PerBlockWrite


(***************************************************************************)
(* process_pdfs (extract_outline_batch.py): SpecBatch.                     *)
(* An entry of input_dir is [stem, ext, file]; the documents behind the    *)
(* PDF entries are the two of BatchDocs.                                   *)
(***************************************************************************)
IsBatch == tool = "process_pdfs"

BatchDocs == { <<>>, <<Page(<<O_Title, O_Bold>>, <<>>)>> }
BatchFiles == {Unreadable, DamagedFile} \cup { Readable(d) : d \in BatchDocs }
EntryNames == { [stem |-> "a", ext |-> "pdf"], [stem |-> "b", ext |-> "pdf"],
                [stem |-> "c", ext |-> "pdf"], [stem |-> "a", ext |-> "txt"] }
Directories ==
    UNION { [ N -> BatchFiles ] : N \in { M \in SUBSET EntryNames :
                                            Cardinality(M) <= MaxEntries } }

\* (every entry, whatever its suffix)
GlobPdfAll(dir) == DOMAIN dir
\* input_dir.glob("*.pdf"): the names matching the pattern
GlobPdf(dir) == { n \in DOMAIN dir : n.ext = "pdf" }

\* the orders in which the listing may come
Orderings(S) ==
    { f \in [1..Cardinality(S) -> S] : \A i, j \in DOMAIN f : f[i] = f[j] => i = j }

\* f"{pdf.stem}.json"
OutFileName(n) == <<n.stem, "json">>

InitBatch ==
    /\ tool = "process_pdfs"
    /\ pc = "start"
    /\ entries \in Directories
    /\ pdf_files = <<>> /\ file_idx = 0 /\ out_files = {} /\ write_log = <<>>
    /\ IdleCommon /\ IdleOutline /\ outline = <<>> /\ IdleAdjust /\ IdleFeature

\* output_dir.mkdir(...); pdf_files = list(input_dir.glob("*.pdf"));
\* if not pdf_files: return
BatchList ==
    /\ IsBatch /\ pc = "start"
    /\ pdf_files' \in Orderings(GlobPdf(entries))
    /\ file_idx' = 1
    /\ pc' = IF pdf_files' = <<>> THEN "done" ELSE "loop"
    /\ UNCHANGED <<tool, pdf, doc, raised, result, log, outlineVars,
                   adjustVars, featureVars, entries, out_files, write_log>>

\* for pdf in pdf_files: result = extract_pdf_structure(pdf), the call
BatchCall ==
    /\ IsBatch /\ pc = "loop"
    /\ file_idx <= Len(pdf_files)
    /\ pdf' = entries[pdf_files[file_idx]]
    /\ doc' = "none" /\ result' = None
    /\ blocks' = <<>> /\ font_sizes' = <<>> /\ title' = None /\ outline' = <<>>
    /\ pc' = "open"
    /\ UNCHANGED <<tool, raised, log, adjustVars, featureVars, batchVars>>

\* with open(out_file, "w") ...: json.dump(result, f, ...); print(...)
BatchWrite ==
    /\ IsBatch /\ pc = "returned"
    /\ LET name == OutFileName(pdf_files[file_idx])
       IN  /\ out_files' = { f \in out_files : f.name # name }
                             \cup { [name |-> name, content |-> result[1]] }
           /\ write_log' = Append(write_log, name)
    /\ file_idx' = file_idx + 1
    /\ pc' = "loop"
    /\ UNCHANGED <<tool, pdf, doc, raised, result, log, outlineVars,
                   adjustVars, featureVars, entries, pdf_files>>

\* the loop is over: process_pdfs returns
BatchDone ==
    /\ IsBatch /\ pc = "loop"
    /\ file_idx > Len(pdf_files)
    /\ pc' = "done"
    /\ UNCHANGED <<tool, pdf, doc, raised, result, log, outlineVars,
                   adjustVars, featureVars, batchVars>>

NextBatch ==
    BatchList \/ BatchCall \/ BatchWrite \/ BatchDone \/ NextOutline
SpecBatch == InitBatch /\ [][NextBatch]_vars


(***************************************************************************)
(* Claims about process_pdfs, under SpecBatch.                             *)
(***************************************************************************)
PdfEntries == { n \in DOMAIN entries : n.ext = "pdf" }
ListedNames == [i \in 1..Len(pdf_files) |-> <<pdf_files[i].stem, "json">>]
\* the first listed PDF on which extract_pdf_structure fails (past the end
\* if there is none)
FirstFailing ==
    LET bad == { i \in 1..Len(pdf_files) :
                   ~entries[pdf_files[i]].readable \/ entries[pdf_files[i]].damaged }
    IN  IF bad = {} THEN Len(pdf_files) + 1 ELSE Min(bad)

\* C9: process_pdfs handles the matched PDFs one at a time in listing order
\* and writes <stem>.json only after extract_pdf_structure succeeded on the
\* file: without a *.pdf entry nothing is created and nothing is raised; if
\* opening the k-th listed PDF fails the error leaves process_pdfs, the k-1
\* earlier PDFs have an output file and the others none; if none fails
\* every listed PDF has exactly one output file.
C9_BatchInListingOrder ==
    IsBatch =>
        /\ pc = "start" => out_files = {} /\ raised = "none"
        /\ pc # "start" =>
             /\ { pdf_files[i] : i \in 1..Len(pdf_files) } = PdfEntries
             /\ Len(pdf_files) = Cardinality(PdfEntries)
             /\ Len(write_log) < FirstFailing
             /\ write_log = SubSeq(ListedNames, 1, Len(write_log))
             /\ { f.name : f \in out_files }
                  = { write_log[i] : i \in 1..Len(write_log) }
             /\ Cardinality(out_files) = Len(write_log)
             /\ raised # "none" <=> pc = "raised"
             /\ PdfEntries = {} => out_files = {} /\ pc = "done"
             /\ pc = "raised" =>
                  /\ FirstFailing <= Len(pdf_files)
                  /\ file_idx = FirstFailing
                  /\ Len(write_log) = FirstFailing - 1
             /\ pc = "done" =>
                  /\ FirstFailing = Len(pdf_files) + 1
                  /\ Len(write_log) = Len(pdf_files)

\* C9 witness: of three listed PDFs the second could not be opened and the
\* third could have been: the error left process_pdfs with one output file.
C9_Witness ==
    /\ IsBatch /\ pc = "raised"
    /\ Len(pdf_files) = 3
    /\ FirstFailing = 2
    /\ ~entries[pdf_files[2]].readable
    /\ entries[pdf_files[3]].readable /\ ~entries[pdf_files[3]].damaged
    /\ Cardinality(out_files) = 1


(***************************************************************************)
(* Claims about the two feature extractors.                                *)
(***************************************************************************)
IsFeature == IsMerged \/ IsPerBlock

\* the rows that carry normalised values: the rows of the CSV file of the
\* Merged-Block extractor, the dictionaries of the Per-Block extractor once
\* section 6 has run
NormalizedRows ==
    IF IsMerged THEN csvfile.rows
    ELSE IF IsPerBlock /\ pc \in {"write", "returned"} THEN all_blocks_data
    ELSE <<>>

\* the number of rows of the document
DocumentRows ==
    IF IsMerged THEN Len(all_blocks_raw_data) ELSE Len(all_blocks_data)

Metrics == {"font_size", "space_above", "space_below", "space_left",
            "space_right"}

\* the value of metric m in row i that the normalisation starts from
MetricValue(i, m) ==
    IF IsMerged
    THEN IF m = "font_size" THEN all_blocks_raw_data[i].style[2]
         ELSE all_blocks_raw_data[i][m]
    ELSE all_blocks_data[i][m]

\* the normalised value of metric m in row i, in ten-thousandths
NormalizedValue(i, m) ==
    LET row == NormalizedRows[i]
    IN  CASE m = "font_size"   -> row.norm_font_size
          [] m = "space_above" -> row.norm_space_above
          [] m = "space_below" -> row.norm_space_below
          [] m = "space_left"  -> row.norm_space_left
          [] m = "space_right" -> row.norm_space_right

MetricMin(m) == Min({ MetricValue(i, m) : i \in 1..DocumentRows })
MetricMax(m) == Max({ MetricValue(i, m) : i \in 1..DocumentRows })

\* C2: in both feature extractors every normalised value of the five
\* metrics lies in [0.0, 1.0]; a row holding the document-wide minimum gets
\* 0.0; a row holding the maximum gets 1.0 when the minimum differs from
\* the maximum; and every row gets 0.0 when they are equal.
C2_NormalizedIntoUnitInterval ==
    \A m \in Metrics : \A i \in 1..Len(NormalizedRows) :
        LET v == MetricValue(i, m)
            n == NormalizedValue(i, m)
        IN  /\ 0 <= n /\ n <= 10000
            /\ v = MetricMin(m) => n = 0
            /\ (v = MetricMax(m) /\ MetricMin(m) # MetricMax(m)) => n = 10000
            /\ MetricMin(m) = MetricMax(m) => n = 0

\* C2 witness: the Merged-Block extractor wrote three rows or more; one
\* metric has a single value over the document, another has a minimum, a
\* maximum and a value strictly between them.
C2_Witness ==
    /\ IsMerged /\ pc = "returned" /\ Len(csvfile.rows) >= 3
    /\ \E m \in Metrics : MetricMin(m) = MetricMax(m)
    /\ \E m \in Metrics : \E i, j, k \in 1..Len(csvfile.rows) :
         /\ NormalizedValue(i, m) = 0 /\ NormalizedValue(k, m) = 10000
         /\ 0 < NormalizedValue(j, m) /\ NormalizedValue(j, m) < 10000

NonBlank(text) == Strip(text) # <<>>

\* C3: in the three tools every emitted record (block, title and heading
\* of the outline; row of either CSV file) has a text that is not empty
\* after trimming white space.
C3_EmittedTextNonBlank ==
    /\ IsOutline =>
         /\ \A i \in 1..Len(blocks) : NonBlank(blocks[i].text)
         /\ title # None => NonBlank(title[1])
         /\ \A k \in 1..Len(outline) : NonBlank(outline[k].text)
    /\ IsMerged =>
         /\ \A i \in 1..Len(all_blocks_raw_data) :
              NonBlank(all_blocks_raw_data[i].text)
         /\ \A i \in 1..Len(csvfile.rows) : NonBlank(csvfile.rows[i].text)
    /\ IsPerBlock =>
         /\ \A i \in 1..Len(all_blocks_data) : NonBlank(all_blocks_data[i].text)
         /\ \A i \in 1..Len(csvfile.rows) : NonBlank(csvfile.rows[i].text)

HasBlock(b) == \E p \in 1..Len(pdf.pages) :
                 \E i \in 1..Len(pdf.pages[p].blocks) : pdf.pages[p].blocks[i] = b

\* C3 witness: the Per-Block extractor wrote the one row of a document that
\* holds a block of white space only and a block with a blank span among
\* its spans.
C3_Witness ==
    /\ IsPerBlock /\ pc = "returned"
    /\ HasBlock(P_Blank) /\ HasBlock(P_Para)
    /\ Len(csvfile.rows) = 1

\* C7: on every exit path of extract_and_process_pdf no exception reaches
\* the caller, and a document that was opened has been closed when the
\* function returns.
C7_ClosedOnEveryExit ==
    (IsMerged /\ pc = "returned") =>
        /\ raised = "none"
        /\ pdf.readable => doc = "closed"

\* C8: when extract_pdf_structure or process_pdf completes without an
\* exception, the document that was opened for it has been closed.
C8_ClosedOnCompletion ==
    ((IsOutline \/ IsPerBlock) /\ pc = "returned" /\ pdf.readable) =>
        doc = "closed"

\* no span of a text block of the document holds a character other than
\* white space
NoText(d) ==
    \A p \in 1..Len(d) : \A i \in 1..Len(d[p].blocks) :
        LET spans == SpansOf(d[p].blocks[i])
        IN  d[p].blocks[i].type = 0 =>
                \A k \in 1..Len(spans) : Strip(spans[k].text) = <<>>

\* C10: for both feature extractors a PDF without an extractable text
\* block (no pages, only non-text blocks, only empty or white-space text)
\* makes the function return without raising and without a CSV file.
C10_NoTextNoCsv ==
    (IsFeature /\ pdf.readable /\ ~pdf.damaged /\ NoText(pdf.pages)) =>
        /\ pc # "raised" /\ raised = "none"
        /\ csvfile = NoFile
        /\ pc = "returned" => \E k \in 1..Len(log) : log[k] = "no text"

\* C10 witness: the Merged-Block extractor returned from a document of two
\* pages holding an image and a block of white space.
C10_Witness ==
    /\ IsMerged /\ pc = "returned" /\ pdf.readable /\ ~pdf.damaged
    /\ Len(pdf.pages) = 2 /\ HasBlock(M_Image) /\ HasBlock(M_Blank)
    /\ NoText(pdf.pages)


(***************************************************************************)
(* Claims about the page value of a record.                                *)
(***************************************************************************)
\* a raw block with a span that is not blank
HasText(b) ==
    /\ b.type = 0
    /\ \E k \in 1..Len(SpansOf(b)) : Strip(SpansOf(b)[k].text) # <<>>

TextBlockCount(page) ==
    Cardinality({ i \in 1..Len(page.blocks) : HasText(page.blocks[i]) })
MergedBlockCount(page) == Len(MergedBlocksOnPage(page))

\* the page values of the records of the document, in order, when page p
\* (counted from 0) yields Count(page) records valued p + base
RecordPages(Count(_), base) ==
    Flatten([p \in 1..Len(pdf.pages) |->
               [j \in 1..Count(pdf.pages[p]) |-> p - 1 + base]])

\* the page values of the Outline tool's blocks and nodes count from 0
OutlinePagesFromZero ==
    (IsOutline /\ pc \in {"detect", "adjust", "return", "returned"}) =>
        /\ [i \in 1..Len(blocks) |-> blocks[i].page]
             = RecordPages(TextBlockCount, 0)
        /\ \A k \in 1..Len(outline) : \E i \in 1..Len(blocks) :
             /\ blocks[i].text = outline[k].text
             /\ blocks[i].page = outline[k].page

\* the page_number of the rows of a CSV file counts from base
CsvPagesFrom(Count(_), base) ==
    \A i \in 1..Len(csvfile.rows) :
        csvfile.rows[i].page_number = RecordPages(Count, base)[i]

\* C11 as stated: the page value of a record is the index of its page
\* counted from 0 in the Outline tool (node page) and in the Merged-Block
\* extractor (column page_number), and that index plus 1 in the Per-Block
\* extractor.
C11_PageValues ==
    /\ OutlinePagesFromZero
    /\ IsMerged => CsvPagesFrom(MergedBlockCount, 0)
    /\ IsPerBlock => CsvPagesFrom(TextBlockCount, 1)

\* C11 amended: the page value of a record is the index of its page counted
\* from 0 in the Outline tool, and that index plus 1 in the column
\* page_number of both the Merged-Block and the Per-Block extractor.
C11_PageValuesAmended ==
    /\ OutlinePagesFromZero
    /\ IsMerged => CsvPagesFrom(MergedBlockCount, 1)
    /\ IsPerBlock => CsvPagesFrom(TextBlockCount, 1)

\* C11 witness: the Merged-Block extractor wrote a row for the first page of
\* a document and a row for its second page.
C11_Witness ==
    /\ IsMerged /\ pc = "returned" /\ Len(pdf.pages) = 2
    /\ Len(csvfile.rows) = 2
    /\ csvfile.rows[1].page_number = 1
    /\ csvfile.rows[2].page_number = 2


(***************************************************************************)
(* Claims about the underline and the spacing of the Per-Block extractor.  *)
(***************************************************************************)
\* the blocks of a page that yield a row, ordered by top edge
RowBlocks(page) == SelectSeq(SortedByY0(page.blocks), HasText)

\* the test of the claim for one path and one block
ClaimUnderlines(path, bbox, font_size) ==
    /\ path[4] - path[2] < 1000
    /\ path[3] - path[1] > 0
    /\ Abs(path[2] - bbox[4]) < font_size * 200
    /\ Max({bbox[1], path[1]}) < Min({bbox[3], path[3]})

\* the underline the claim gives the rows of the document, in order
ClaimUnderlineFlags ==
    Flatten([p \in 1..Len(pdf.pages) |->
        LET page == pdf.pages[p]
            bs == RowBlocks(page)
        IN  [r \in 1..Len(bs) |->
               \E d \in 1..Len(page.drawings) :
                  ClaimUnderlines(page.drawings[d], bs[r].bbox,
                                  AnalyzeBlockTextFeatures(bs[r]).size)]])

\* C12: a row's is_underline is true if and only if its page has a drawing
\* path less than 1.0 high and more than 0 wide, whose y0 lies strictly
\* within font_size * 0.2 of the block's y1 and whose horizontal extent
\* overlaps the block's; a path of another page never sets it.
C12_UnderlineIffPath ==
    (IsPerBlock /\ pc \in {"close", "normalize", "write", "returned"}) =>
        [i \in 1..Len(all_blocks_data) |-> all_blocks_data[i].is_underline]
            = ClaimUnderlineFlags

\* C12 witness: on a page with paths beside, just off and across the bottom
\* edge of the heading and a stroke under the end of the paragraph, the
\* heading's row is not underlined and the paragraph's row is.
C12_Witness ==
    /\ IsPerBlock /\ pc = "returned" /\ Len(csvfile.rows) = 2
    /\ Len(pdf.pages) >= 1 /\ Len(pdf.pages[1].drawings) = 6
    /\ csvfile.rows[1].text = T_Head /\ ~csvfile.rows[1].is_underline
    /\ csvfile.rows[2].page_number = 1 /\ csvfile.rows[2].is_underline


\* the blocks of a page ordered by top edge, blocks of equal top edge in the
\* order of the page
ByTopEdge(bs) ==
    LET n == Len(bs)
        order == CHOOSE f \in [1..n -> 1..n] :
                   /\ \A i, j \in 1..n : i # j => f[i] # f[j]
                   /\ \A i, j \in 1..n : i < j =>
                        \/ bs[f[i]].bbox[2] < bs[f[j]].bbox[2]
                        \/ bs[f[i]].bbox[2] = bs[f[j]].bbox[2] /\ f[i] < f[j]
    IN  [i \in 1..n |-> bs[order[i]]]

\* the spacing <<above, below, left, right>> of the rows of the document, in
\* thousandths of a point, with `first` above the first block of a page
ClaimSpacing(first(_)) ==
    Flatten([p \in 1..Len(pdf.pages) |->
        LET page == pdf.pages[p]
            bs == ByTopEdge(page.blocks)
            rows == { i \in 1..Len(bs) : HasText(bs[i]) }
        IN  [r \in 1..Cardinality(rows) |->
               LET i == Kth(rows, r)
                   b == bs[i].bbox
               IN  << IF i = 1 THEN first(b) ELSE b[2] - bs[i - 1].bbox[4],
                      IF i = Len(bs) THEN page.height - b[4]
                      ELSE bs[i + 1].bbox[2] - b[4],
                      b[1],
                      page.width - b[3] >>]])

\* the spacing columns of the rows, in hundredths of a point
RowSpacing ==
    [i \in 1..Len(all_blocks_data) |->
       << all_blocks_data[i].space_above, all_blocks_data[i].space_below,
          all_blocks_data[i].space_left, all_blocks_data[i].space_right >>]

PerBlockCollected ==
    IsPerBlock /\ pc \in {"close", "normalize", "write", "returned"}

\* C13 as stated: with the blocks of a page ordered by top edge, a row's
\* space_above is its y0 minus the y1 of the previous block of the page and
\* 0 for the first block; space_below is the next block's y0 minus its y1
\* and page height minus y1 for the last; space_left = x0 and space_right =
\* page_width - x1; blocks of another page do not enter.
C13_Spacing ==
    PerBlockCollected =>
        LET Zero(b) == 0
            claimed == ClaimSpacing(Zero)
        IN  /\ Len(RowSpacing) = Len(claimed)
            /\ \A i \in 1..Len(claimed) : \A k \in 1..4 :
                 10 * RowSpacing[i][k] = claimed[i][k]

\* C13 amended: the same values rounded to 2 decimals, where the space_above
\* of the first block of a page is its y0, the distance to the top of the
\* page.
C13_SpacingAmended ==
    PerBlockCollected =>
        LET Top(b) == b[2]
            claimed == ClaimSpacing(Top)
        IN  /\ Len(RowSpacing) = Len(claimed)
            /\ \A i \in 1..Len(claimed) : \A k \in 1..4 :
                 RowSpacing[i][k] = Round2(claimed[i][k])

\* C13 witness: a page given as paragraph, heading yields the heading's row
\* first, y0 below the top of the page, and the paragraph's row with the
\* space between the two, rounded.
C13_Witness ==
    /\ IsPerBlock /\ pc = "returned" /\ Len(csvfile.rows) = 2
    /\ Len(pdf.pages) = 1
    /\ pdf.pages[1].blocks = <<P_Para, P_Head>>
    /\ csvfile.rows[1].text = T_Head
    /\ csvfile.rows[1].space_above = 5000
    /\ csvfile.rows[2].space_above = 3001
    /\ csvfile.rows[2].space_right = 10000


(***************************************************************************)
(* Claims about the merge loop of the Merged-Block extractor.              *)
(***************************************************************************)
\* the qualifying lines of a page, in block-then-line order
QualifyingLines(page) == SelectSeq(PageLines(page), LineQualifies)

LineSignature(line) == GetStyleSignature(LongestSpan(line.spans))

\* the positions at which a maximal run of equal signatures begins
RunStarts(lines) ==
    { i \in 1..Len(lines) :
        i = 1 \/ LineSignature(lines[i]) # LineSignature(lines[i - 1]) }

\* the last line of the run that begins at position i
RunEnd(lines, i) ==
    Min({ j \in i..Len(lines) : j = Len(lines) \/ (j + 1) \in RunStarts(lines) })

RECURSIVE JoinTexts(_)
JoinTexts(texts) ==
    IF Len(texts) = 1 THEN texts[1]
    ELSE texts[1] \o <<" ">> \o JoinTexts(Tail(texts))

\* the smallest rectangle that holds every box of a non-empty sequence
UnionOfBoxes(boxes) ==
    LET n == 1..Len(boxes)
    IN  << Min({ boxes[i][1] : i \in n }), Min({ boxes[i][2] : i \in n }),
           Max({ boxes[i][3] : i \in n }), Max({ boxes[i][4] : i \in n }) >>

\* the maximal runs of a page as <<page, text, signature, box>>
MaximalRuns(page, page_num) ==
    LET lines == QualifyingLines(page)
        starts == RunStarts(lines)
    IN  [k \in 1..Cardinality(starts) |->
           LET i == Kth(starts, k)
               run == SubSeq(lines, i, RunEnd(lines, i))
           IN  << page_num,
                  JoinTexts([j \in 1..Len(run) |-> LineText(run[j])]),
                  LineSignature(run[1]),
                  UnionOfBoxes([j \in 1..Len(run) |-> run[j].bbox]) >>]

MergedRecords ==
    [i \in 1..Len(all_blocks_raw_data) |->
       << all_blocks_raw_data[i].page_num, all_blocks_raw_data[i].text,
          all_blocks_raw_data[i].style, all_blocks_raw_data[i].bbox >>]

MergedPass1Done ==
    /\ IsMerged /\ pc \in {"pass2", "finally", "returned"}
    /\ pdf.readable /\ ~pdf.damaged

\* C14: after pass 1 of the Merged-Block extractor the merged blocks of
\* every page are exactly the maximal runs of consecutive qualifying lines
\* of the page with one signature, in order: each holds the space-joined
\* texts of its lines and the union of their boxes, adjacent merged blocks of
\* a page differ in signature, no block holds lines of two pages and the
\* last run of a page is finalized.
C14_MergedAreMaximalRuns ==
    MergedPass1Done =>
        /\ MergedRecords =
             Flatten([p \in 1..Len(pdf.pages) |-> MaximalRuns(pdf.pages[p], p)])
        /\ \A i \in 1..(Len(all_blocks_raw_data) - 1) :
             all_blocks_raw_data[i].page_num = all_blocks_raw_data[i + 1].page_num
                => all_blocks_raw_data[i].style # all_blocks_raw_data[i + 1].style

\* C14 witness: two pages of one paragraph each give two merged blocks of one
\* signature, one per page, each the two lines of its paragraph with the
\* union of their boxes.
C14_Witness ==
    /\ IsMerged /\ pc = "returned"
    /\ Len(pdf.pages) = 2
    /\ pdf.pages[1].blocks = <<M_Para>> /\ pdf.pages[2].blocks = <<M_Para>>
    /\ Len(all_blocks_raw_data) = 2 /\ Len(csvfile.rows) = 2
    /\ all_blocks_raw_data[1].style = all_blocks_raw_data[2].style
    /\ all_blocks_raw_data[2].page_num = 2
    /\ all_blocks_raw_data[2].text = Strip(T_Body1) \o <<" ">> \o T_Body2
    /\ all_blocks_raw_data[2].bbox = <<72000, 100000, 500000, 126000>>


Init == InitOutline \/ InitMerged \/ InitPerBlock
Next == NextOutline \/ NextMerged \/ NextPerBlock
Spec == Init /\ [][Next]_vars

=============================================================================
